---- MODULE Spec2Model ----
(***************************************************************************)
(* A model of simple-archive: building Items from flat rows, serialising   *)
(* their Dublin Core metadata, writing an archive as a directory tree or   *)
(* as a zip container, and the use case that picks the output location.    *)
(*                                                                         *)
(* Strings are sequences of one-character strings, so that splitting,      *)
(* searching and formatting are computed as the code computes them.        *)
(* A pathlib.Path is the sequence of its parts (Path("") has no parts).    *)
(***************************************************************************)
EXTENDS Integers, Sequences, FiniteSets, TLC

VARIABLES
    \* Item construction and metadata serialisation
    row, ipc, item, doc,
    \* the archive and the output tree of write_to_path
    items, dpc, dItem, dFile, dPre, dDirs, dOut, dErr, dTrace,
    \* the container of write_to_zip
    zpc, zItem, zFile, zOut, zErr, zTrace,
    \* the use case: execute and create_unique_path
    epc, outArg, flagArg, csv, outPath, createZip, counter, eErr,
    existing, produced, autoPaths, runs

ivars == <<row, ipc, item, doc>>
dvars == <<dpc, dItem, dFile, dPre, dDirs, dOut, dErr, dTrace>>
zvars == <<zpc, zItem, zFile, zOut, zErr, zTrace>>
evars == <<epc, outArg, flagArg, csv, outPath, createZip, counter, eErr,
           existing, produced, autoPaths, runs>>
\* the use case's variables that the write operations leave alone
eframe == <<epc, outArg, flagArg, csv, outPath, createZip, counter, eErr,
            autoPaths, runs>>
vars == <<ivars, items, dvars, zvars, evars>>

----------------------------------------------------------------------------
(* Bounds of the model *)

\* metadata columns of a row, besides the files column
MaxKeys == 2
\* items of an archive
MaxItems == 2
\* successive runs of the use case on one file system
MaxRuns == 2

----------------------------------------------------------------------------
(* Strings *)

S_files == <<"f","i","l","e","s">>
S_dc == <<"d","c">>
S_value == <<"v","a","l","u","e">>
S_qualifier == <<"q","u","a","l","i","f","i","e","r">>
S_language == <<"l","a","n","g","u","a","g","e">>
S_none == <<"n","o","n","e">>
S_zip == <<"z","i","p">>
S_output == <<"o","u","t","p","u","t">>
S_contents == <<"c","o","n","t","e","n","t","s">>
S_dublin_core_xml == <<"d","u","b","l","i","n","_","c","o","r","e",".","x","m","l">>
S_item_ == <<"i","t","e","m","_">>

\* the least index at which sep occurs in s, 0 when it does not (str.find + 1)
Find(s, sep) ==
    LET hits == {i \in 1..(Len(s) - Len(sep) + 1) : SubSeq(s, i, i + Len(sep) - 1) = sep}
    IN IF hits = {} THEN 0 ELSE CHOOSE i \in hits : \A j \in hits : i <= j

\* str.split(sep): always at least one piece
RECURSIVE Split(_, _)
Split(s, sep) ==
    LET i == Find(s, sep)
    IN IF i = 0 THEN <<s>>
       ELSE <<SubSeq(s, 1, i - 1)>> \o Split(SubSeq(s, i + Len(sep), Len(s)), sep)

\* the decimal digits of n >= 0
Digit(d) == <<"0","1","2","3","4","5","6","7","8","9">>[d + 1]
RECURSIVE Dec(_)
Dec(n) == IF n < 10 THEN <<Digit(n)>> ELSE Dec(n \div 10) \o <<Digit(n % 10)>>

\* format(n, "03d"): zero-padded to at least three digits
RECURSIVE PadLeft(_, _)
PadLeft(s, w) == IF Len(s) >= w THEN s ELSE PadLeft(<<"0">> \o s, w)
Fmt03d(n) == PadLeft(Dec(n), 3)

\* pathlib.Path(s): the parts of a relative path; empty and "." segments vanish
PathOf(s) == SelectSeq(Split(s, <<"/">>), LAMBDA p : p # <<>> /\ p # <<".">>)
\* Path.name: the last part, "" for a path without parts
PathName(p) == IF p = <<>> THEN <<>> ELSE p[Len(p)]
\* Path.suffix: from the last dot of the name, the dot included; "" when the
\* name has no dot, only a leading dot, or ends with a dot
PathSuffix(p) ==
    LET name == PathName(p)
        dots == {i \in 1..Len(name) : name[i] = "."}
        last == CHOOSE i \in dots : \A j \in dots : j <= i
    IN IF dots = {} THEN <<>>
       ELSE IF last = 1 \/ last = Len(name) THEN <<>>
       ELSE SubSeq(name, last, Len(name))
\* Path.stem: the name without its suffix
PathStem(p) == SubSeq(PathName(p), 1, Len(PathName(p)) - Len(PathSuffix(p)))

----------------------------------------------------------------------------
(* Values of the nested mapping built from a row: a string or a mapping.   *)
(* A mapping is the sequence of its entries in insertion order.            *)

StrV(s) == [t |-> "str", s |-> s, d |-> <<>>]
DictV(d) == [t |-> "dict", s |-> <<>>, d |-> d]
DictHas(d, k) == \E i \in 1..Len(d) : d[i].k = k
DictIdx(d, k) == CHOOSE i \in 1..Len(d) : d[i].k = k
DictGet(d, k) == d[DictIdx(d, k)].v
\* d[k] = v: an existing key keeps its place
DictSet(d, k, v) ==
    IF DictHas(d, k) THEN [d EXCEPT ![DictIdx(d, k)].v = v]
    ELSE Append(d, [k |-> k, v |-> v])

None == [some |-> FALSE, s |-> <<>>]
Some(s) == [some |-> TRUE, s |-> s]

----------------------------------------------------------------------------
(* Item construction: Item from a row *)

\* Item.unflatten_values, the first loop: nested[parts...] = value.  Walking
\* into a value that is a string raises TypeError (ok = FALSE).
RECURSIVE SetPath(_, _, _)
SetPath(d, parts, value) ==
    IF Len(parts) = 1 THEN [ok |-> TRUE, d |-> DictSet(d, parts[1], value)]
    ELSE LET part == Head(parts)
             d1 == IF DictHas(d, part) THEN d
                   ELSE Append(d, [k |-> part, v |-> DictV(<<>>)])
             sub == DictGet(d1, part)
         IN IF sub.t # "dict" THEN [ok |-> FALSE, d |-> d]
            ELSE LET r == SetPath(sub.d, Tail(parts), value)
                 IN IF r.ok
                    THEN [ok |-> TRUE, d |-> DictSet(d1, part, DictV(r.d))]
                    ELSE [ok |-> FALSE, d |-> d]

RECURSIVE Nest(_, _)
Nest(r, nested) ==
    IF r = <<>> THEN [ok |-> TRUE, d |-> nested]
    ELSE LET step == SetPath(nested, Split(Head(r).k, <<".">>), StrV(Head(r).v))
         IN IF step.ok THEN Nest(Tail(r), step.d) ELSE step

\* Item.unflatten_values, the second loop: "files" stays at the top, every
\* other top-level key goes under "metadata"
RECURSIVE MetadataOf(_)
MetadataOf(nested) ==
    IF nested = <<>> THEN <<>>
    ELSE IF Head(nested).k = S_files THEN MetadataOf(Tail(nested))
    ELSE <<Head(nested)>> \o MetadataOf(Tail(nested))

unflatten_values(r) ==
    LET n == Nest(r, <<>>)
    IN IF ~n.ok THEN [ok |-> FALSE, hasFiles |-> FALSE, files |-> StrV(<<>>), metadata |-> <<>>]
       ELSE [ok |-> TRUE,
             hasFiles |-> DictHas(n.d, S_files),
             files |-> IF DictHas(n.d, S_files) THEN DictGet(n.d, S_files) ELSE StrV(<<>>),
             metadata |-> MetadataOf(n.d)]

\* Item.split_str on a string: v.split("||")
split_str(v) == Split(v, <<"|","|">>)

\* the field files: list[Path], validated from the split strings
RECURSIVE PathsOf(_)
PathsOf(strs) == IF strs = <<>> THEN <<>> ELSE <<PathOf(Head(strs))>> \o PathsOf(Tail(strs))

Letters == {"a","b","c","d","e","f","g","h","i","j","k","l","m","n","o","p","q",
            "r","s","t","u","v","w","x","y","z","A","B","C","D","E","F","G","H",
            "I","J","K","L","M","N","O","P","Q","R","S","T","U","V","W","X","Y",
            "Z","_"}

\* a search that returns the rightmost match instead of the leftmost
LangSearchLast(key) ==
    LET hits == {<<i, j>> \in (1..Len(key)) \X (1..Len(key)) :
                    /\ i + 1 < j
                    /\ key[i] = "[" /\ key[j] = "]"
                    /\ \A m \in (i + 1)..(j - 1) : key[m] \in Letters}
        best == CHOOSE h \in hits : \A g \in hits : h[1] >= g[1]
    IN IF hits = {} THEN [found |-> FALSE, start |-> 0, group |-> <<>>]
       ELSE [found |-> TRUE, start |-> best[1] - 1,
             group |-> SubSeq(key, best[1] + 1, best[2] - 1)]

\* LANGUAGE_IN_SQUARE_BRACKETS.search(key): the leftmost "[", one or more
\* letters or underscores, "]".  start is the 0-based offset of the match.
LangSearch(key) ==
    LET hits == {<<i, j>> \in (1..Len(key)) \X (1..Len(key)) :
                    /\ i + 1 < j
                    /\ key[i] = "[" /\ key[j] = "]"
                    /\ \A m \in (i + 1)..(j - 1) : key[m] \in Letters}
        best == CHOOSE h \in hits : \A g \in hits : h[1] <= g[1]
    IN IF hits = {} THEN [found |-> FALSE, start |-> 0, group |-> <<>>]
       ELSE [found |-> TRUE, start |-> best[1] - 1,
             group |-> SubSeq(key, best[1] + 1, best[2] - 1)]

\* One entry of the mapping given to DublinCore, with DublinCoreElement's
\* validation of a mapping payload: "value" is required, every field a string,
\* unknown fields ignored.
ElementOfStr(key, value) ==
    LET lang == LangSearch(key)
    IN IF lang.found
       THEN [element |-> SubSeq(key, 1, lang.start), value |-> value,
             qualifier |-> None, language |-> Some(lang.group)]
       ELSE [element |-> key, value |-> value, qualifier |-> None, language |-> None]

OptField(d, k) == IF DictHas(d, k) THEN Some(DictGet(d, k).s) ELSE None
PayloadOk(d) ==
    /\ DictHas(d, S_value) /\ DictGet(d, S_value).t = "str"
    /\ \A k \in {S_qualifier, S_language} : DictHas(d, k) => DictGet(d, k).t = "str"
ElementOfDict(key, d) ==
    [element |-> key, value |-> DictGet(d, S_value).s,
     qualifier |-> OptField(d, S_qualifier), language |-> OptField(d, S_language)]

\* DublinCore.build_list_from_dict_if_needed on a mapping, then the validation of
\* the list as list[DublinCoreElement]
RECURSIVE build_list_from_dict_if_needed(_)
build_list_from_dict_if_needed(values) ==
    IF values = <<>> THEN [ok |-> TRUE, root |-> <<>>]
    ELSE LET e == Head(values)
             rest == build_list_from_dict_if_needed(Tail(values))
         IN IF ~rest.ok THEN rest
            ELSE IF e.v.t = "str"
            THEN [ok |-> TRUE, root |-> <<ElementOfStr(e.k, e.v.s)>> \o rest.root]
            ELSE IF PayloadOk(e.v.d)
            THEN [ok |-> TRUE, root |-> <<ElementOfDict(e.k, e.v.d)>> \o rest.root]
            ELSE [ok |-> FALSE, root |-> <<>>]

NoItem == [files |-> <<>>, dc |-> <<>>]
Failure(e) == [ok |-> FALSE, err |-> e, item |-> NoItem]

\* Item from a row: unflatten_values, split_str, and the validation of the fields
\* files: list[Path] and metadata: Metadata (dc required, other keys ignored).
\* The errors of the fields are collected and raised together at the end as a
\* ValidationError; the AttributeError of values.items() on a string dc leaves
\* the validation at once, so it is raised whatever the files field is.
ItemOf(r) ==
    LET u == unflatten_values(r)
    IN IF ~u.ok THEN Failure("TypeError")
       ELSE IF DictHas(u.metadata, S_dc) /\ DictGet(u.metadata, S_dc).t # "dict"
       THEN Failure("AttributeError")
       ELSE IF ~u.hasFiles \/ u.files.t # "str" THEN Failure("ValidationError")
       ELSE IF ~DictHas(u.metadata, S_dc) THEN Failure("ValidationError")
       ELSE LET dc == build_list_from_dict_if_needed(DictGet(u.metadata, S_dc).d)
            IN IF ~dc.ok THEN Failure("ValidationError")
               ELSE [ok |-> TRUE, err |-> "",
                     item |-> [files |-> PathsOf(split_str(u.files.s)), dc |-> dc.root]]

----------------------------------------------------------------------------
(* The metadata document *)

\* dcvalue: the attributes and text of one child
dcvalue(element, qualifier, language, text) ==
    [element |-> element,
     qualifier |-> IF qualifier.some /\ qualifier.s # <<>> THEN qualifier.s ELSE S_none,
     hasLanguage |-> language.some /\ language.s # <<>>,
     language |-> IF language.some THEN language.s ELSE <<>>,
     hasText |-> text # <<>>,
     text |-> text]

RECURSIVE Children(_)
Children(root) ==
    IF root = <<>> THEN <<>>
    ELSE <<dcvalue(Head(root).element, Head(root).qualifier,
                   Head(root).language, Head(root).value)>> \o Children(Tail(root))

\* build_xml: the root element dublin_core and one dcvalue per element
build_xml(dc, schema) == [tag |-> "dublin_core", schema |-> schema, children |-> Children(dc)]

\* build_and_write_metadata(metadata, schema="dc", ...): what is written
build_and_write_metadata(dc) == build_xml(dc, S_dc)
NoDoc == [tag |-> "", schema |-> <<>>, children |-> <<>>]

----------------------------------------------------------------------------
(* The input folder: the files and directories file references resolve to  *)

P_a == <<<<"a">>>>
P_b == <<<<"b">>>>
P_s == <<<<"s">>>>
P_s_a == <<<<"s">>, <<"a">>>>
SrcFiles == {P_a, P_b, P_s_a}
\* Path("") is the input folder itself
SrcDirs == {<<>>, P_s}
SrcKind(p) == IF p \in SrcFiles THEN "file" ELSE IF p \in SrcDirs THEN "dir" ELSE "missing"
SrcBytes(p) == IF p = P_a THEN "bytes of a" ELSE IF p = P_b THEN "bytes of b" ELSE "bytes of s/a"

----------------------------------------------------------------------------
(* Output entries: a file of the output tree, or an entry of the container *)

\* the item number without its zero padding
ItemName_unpadded(k) == S_item_ \o Dec(k)

\* f"item_{item_nr:03d}"
ItemName(k) == S_item_ \o Fmt03d(k)

Entry(name, path, kind, lines, bytes, d) ==
    [item |-> name, path |-> path, kind |-> kind, lines |-> lines, bytes |-> bytes, doc |-> d]
\* the contents listing: file_path.name of every file, one per line
ContentsLines(files) == [i \in 1..Len(files) |-> PathName(files[i])]
ContentsEntry(name, files) ==
    Entry(name, <<S_contents>>, "contents", ContentsLines(files), "", NoDoc)
FileEntry(name, path, bytes) == Entry(name, path, "file", <<>>, bytes, NoDoc)
DirEntry(name, path) == Entry(name, path, "dir", <<>>, "", NoDoc)
XmlEntry(name, d) == Entry(name, <<S_dublin_core_xml>>, "xml", <<>>, "", d)

\* writing a file of the output tree replaces the file of that path
TreePut(tree, e) == {x \in tree : ~(x.item = e.item /\ x.path = e.path)} \cup {e}

----------------------------------------------------------------------------
(* Rows: the flat mappings Items are built from *)

\* values of the files column: "", "a", "a||b", "s/a", "s/a||a", "m", "a||m"
F_empty == <<>>
F_a == <<"a">>
F_a_b == <<"a","|","|","b">>
F_sa == <<"s","/","a">>
F_sa_a == <<"s","/","a","|","|","a">>
F_m == <<"m">>
F_a_m == <<"a","|","|","m">>
FileStrings == {F_empty, F_a, F_a_b, F_sa, F_sa_a, F_m, F_a_m}

\* metadata columns
K_title == <<"d","c",".","t","i","t","l","e">>
K_descr_sv == <<"d","c",".","d","[","s","v","_","S","E","]">>
K_two_brackets == <<"d","c",".","n","[","1","]","[","s","v","]">>
K_bracket_inside == <<"d","c",".","x","[","s","v","]","y">>
K_two_tags == <<"d","c",".","w","[","s","v","]","[","e","n","]">>
K_bad_bracket == <<"d","c",".","u","[","s","1","]">>
K_payload_value == <<"d","c",".","q",".","v","a","l","u","e">>
K_payload_qualifier == <<"d","c",".","q",".","q","u","a","l","i","f","i","e","r">>
K_trailing_dot == <<"d","c",".">>
K_leading_dot == <<".","t">>
K_double_dot == <<"d","c",".",".","t">>
K_title_trailing_dot == <<"d","c",".","t","i","t","l","e",".">>
K_title_sub == <<"d","c",".","t","i","t","l","e",".","x">>
K_dc == <<"d","c">>
K_other == <<"x",".","y">>
MetaKeys == {K_title, K_descr_sv, K_two_brackets, K_bracket_inside, K_two_tags,
             K_bad_bracket,
             K_payload_value, K_payload_qualifier, K_trailing_dot, K_leading_dot,
             K_double_dot, K_title_trailing_dot, K_title_sub, K_dc, K_other}

V_empty == <<>>
V_text == <<"E","m","p","t","y">>
Values == {V_empty, V_text}

Injective(f) == \A i, j \in DOMAIN f : i # j => f[i] # f[j]
FilesColumns == {<<>>} \cup {<<[k |-> S_files, v |-> F_empty]>>,
                             <<[k |-> S_files, v |-> F_a_b]>>}
\* r is a row: the files column (or none) and up to MaxKeys distinct metadata
\* columns
IsRow(r) ==
    \E n \in 0..MaxKeys :
        \E fc \in FilesColumns, ks \in [1..n -> MetaKeys], vs \in [1..n -> Values] :
            /\ Injective(ks)
            /\ r = fc \o [i \in 1..n |-> [k |-> ks[i], v |-> vs[i]]]

----------------------------------------------------------------------------
(* Item construction as an entry point: one row, made an Item, its         *)
(* metadata written                                                        *)

NoResult == [ok |-> FALSE, err |-> "", item |-> NoItem]

WriteIdle ==
    /\ items = <<>>
    /\ dpc = "idle" /\ dItem = 0 /\ dFile = 0 /\ dPre = {} /\ dDirs = {} /\ dOut = {}
    /\ dErr = "" /\ dTrace = <<>>
    /\ zpc = "idle" /\ zItem = 0 /\ zFile = 0 /\ zOut = <<>> /\ zErr = "" /\ zTrace = <<>>

ExecIdle ==
    /\ epc = "idle" /\ outArg = None /\ flagArg = FALSE /\ csv = <<>>
    /\ outPath = <<>> /\ createZip = FALSE /\ counter = 0 /\ eErr = ""
    /\ existing = {} /\ produced = <<>> /\ autoPaths = <<>> /\ runs = 0

InitItem ==
    /\ IsRow(row)
    /\ ipc = "row" /\ item = NoResult /\ doc = NoDoc
    /\ WriteIdle /\ ExecIdle

\* item = Item from a row
Construct ==
    /\ ipc = "row"
    /\ item' = ItemOf(row)
    /\ ipc' = IF item'.ok THEN "item" ELSE "rejected"
    /\ UNCHANGED <<row, doc, items, dvars, zvars, evars>>

\* build_and_write_metadata(item.metadata.dc, schema="dc", ...)
WriteMetadata ==
    /\ ipc = "item"
    /\ doc' = build_and_write_metadata(item.item.dc)
    /\ ipc' = "written"
    /\ UNCHANGED <<row, item, items, dvars, zvars, evars>>


----------------------------------------------------------------------------
(* The file system outside the input folder: the paths that exist *)

Dir(p) == [path |-> p, kind |-> "dir"]
File(p) == [path |-> p, kind |-> "file"]
\* Path.exists()
Exists(fs, p) == \E e \in fs : e.path = p
\* p and the directories above it
Prefixes(p) == {SubSeq(p, 1, n) : n \in 1..Len(p)}
\* Path.parent
Parent(p) == SubSeq(p, 1, Len(p) - 1)
\* mkdir(parents=True): p and the missing directories above it
MakeDirs(fs, p) == fs \cup {Dir(q) : q \in {x \in Prefixes(p) : ~Exists(fs, x)}}
\* opening a file for writing creates it or truncates it
MakeFile(fs, p) == {e \in fs : e.path # p} \cup {File(p)}
Output(n, p) == [run |-> n, path |-> p]

----------------------------------------------------------------------------
(* SimpleArchive.write_to_path(output_path), one step per I/O call *)

Step(k, what, j) == [item |-> k, step |-> what, file |-> j]

\* mkdir with exist_ok=True: an existing item directory is written into
write_to_path_mkdir_exist_ok ==
    /\ dpc = "loop"
    /\ IF dItem >= Len(items)
       THEN /\ dpc' = "done"
            /\ UNCHANGED <<dDirs, dErr, dTrace, existing>>
       ELSE /\ dDirs' = dDirs \cup {ItemName(dItem)}
            /\ existing' = MakeDirs(existing, outPath)
            /\ dTrace' = Append(dTrace, Step(dItem, "mkdir", 0))
            /\ dpc' = "contents"
            /\ dErr' = dErr
    /\ UNCHANGED <<dItem, dFile, dPre, dOut, items, ivars, zvars, eframe, produced>>

\* the head of the loop over the items, and item_path.mkdir(parents=True,
\* exist_ok=False) for the next item
write_to_path_mkdir ==
    /\ dpc = "loop"
    /\ IF dItem >= Len(items)
       THEN /\ dpc' = "done"
            /\ UNCHANGED <<dDirs, dErr, dTrace, existing>>
       ELSE IF ItemName(dItem) \in dPre \cup dDirs
       THEN /\ dpc' = "failed"
            /\ dErr' = "FileExistsError"
            /\ UNCHANGED <<dDirs, dTrace, existing>>
       ELSE /\ dDirs' = dDirs \cup {ItemName(dItem)}
            /\ existing' = MakeDirs(existing, outPath)
            /\ dTrace' = Append(dTrace, Step(dItem, "mkdir", 0))
            /\ dpc' = "contents"
            /\ dErr' = dErr
    /\ UNCHANGED <<dItem, dFile, dPre, dOut, items, ivars, zvars, eframe, produced>>

\* write_contents_file(item, item_path)
write_contents_file ==
    /\ dpc = "contents"
    /\ dOut' = TreePut(dOut, ContentsEntry(ItemName(dItem), items[dItem + 1].files))
    /\ dTrace' = Append(dTrace, Step(dItem, "contents", 0))
    /\ dpc' = "copy"
    /\ dFile' = 0
    /\ UNCHANGED <<dItem, dPre, dDirs, dErr, items, ivars, zvars, evars>>

\* a copy that passes over a missing source instead of raising
CopyOne_skip_missing(src) ==
    IF SrcKind(src) = "dir"
    THEN /\ dpc' = "failed"
         /\ dErr' = "IsADirectoryError"
         /\ UNCHANGED <<dOut, dTrace, dFile>>
    ELSE /\ dOut' = IF SrcKind(src) = "file"
                    THEN TreePut(dOut, FileEntry(ItemName(dItem), <<PathName(src)>>,
                                                 SrcBytes(src)))
                    ELSE dOut
         /\ dTrace' = Append(dTrace, Step(dItem, "copy", dFile + 1))
         /\ dFile' = dFile + 1
         /\ UNCHANGED <<dpc, dErr>>

\* shutil.copy(src_path, item_path): the file lands under its base name; a
\* missing source and a source that is a directory raise
CopyOne(src) ==
    IF SrcKind(src) = "file"
    THEN /\ dOut' = TreePut(dOut, FileEntry(ItemName(dItem), <<PathName(src)>>, SrcBytes(src)))
         /\ dTrace' = Append(dTrace, Step(dItem, "copy", dFile + 1))
         /\ dFile' = dFile + 1
         /\ UNCHANGED <<dpc, dErr>>
    ELSE /\ dpc' = "failed"
         /\ dErr' = IF SrcKind(src) = "dir" THEN "IsADirectoryError" ELSE "FileNotFoundError"
         /\ UNCHANGED <<dOut, dTrace, dFile>>

\* copy_files(item, item_path): one file per step, then on to the metadata
copy_files ==
    /\ dpc = "copy"
    /\ LET files == items[dItem + 1].files
       IN IF dFile < Len(files)
          THEN CopyOne(files[dFile + 1])
          ELSE /\ dpc' = "metadata"
               /\ UNCHANGED <<dOut, dTrace, dFile, dErr>>
    /\ UNCHANGED <<dItem, dPre, dDirs, items, ivars, zvars, evars>>

\* build_and_write_metadata(item.metadata.dc, schema="dc",
\*                          path_or_file=item_path / "dublin_core.xml")
write_to_path_metadata ==
    /\ dpc = "metadata"
    /\ dOut' = TreePut(dOut, XmlEntry(ItemName(dItem),
                                      build_and_write_metadata(items[dItem + 1].dc)))
    /\ dTrace' = Append(dTrace, Step(dItem, "metadata", 0))
    /\ dItem' = dItem + 1
    /\ dpc' = "loop"
    /\ UNCHANGED <<dFile, dPre, dDirs, dErr, items, ivars, zvars, evars>>

write_to_path ==
    \/ write_to_path_mkdir
    \/ write_contents_file
    \/ copy_files
    \/ write_to_path_metadata

----------------------------------------------------------------------------
(* SimpleArchive.write_to_zip(output_path), one step per entry written *)

\* ZipFile(output_path, "w"): the container is created empty, replacing a file
\* of that path; a directory of that path cannot be opened
zip_open ==
    /\ zpc = "open"
    /\ IF Dir(outPath) \in existing
       THEN /\ zpc' = "failed"
            /\ zErr' = "IsADirectoryError"
            /\ UNCHANGED <<zOut, existing, produced>>
       ELSE /\ zOut' = <<>>
            /\ existing' = MakeFile(existing, outPath)
            /\ produced' = Append(produced, Output(runs, outPath))
            /\ zpc' = "item"
            /\ zErr' = zErr
    /\ UNCHANGED <<zItem, zFile, zTrace, items, ivars, dvars, eframe>>

\* the head of the loop over the items; leaving it closes the container
zip_next_item ==
    /\ zpc = "item"
    /\ zpc' = IF zItem >= Len(items) THEN "done" ELSE "file"
    /\ zFile' = 0
    /\ UNCHANGED <<zItem, zOut, zErr, zTrace, items, ivars, dvars, evars>>

\* zipfile.write(src_path, f"{item_path}/{file_path}"): a file is stored under
\* its relative path, a directory as a directory entry, a missing source raises
ZipOne(src) ==
    IF SrcKind(src) = "missing"
    THEN /\ zpc' = "failed"
         /\ zErr' = "FileNotFoundError"
         /\ UNCHANGED <<zOut, zTrace, zFile>>
    ELSE /\ zOut' = Append(zOut, IF SrcKind(src) = "dir"
                                 THEN DirEntry(ItemName(zItem), src)
                                 ELSE FileEntry(ItemName(zItem), src, SrcBytes(src)))
         /\ zTrace' = Append(zTrace, Step(zItem, "copy", zFile + 1))
         /\ zFile' = zFile + 1
         /\ UNCHANGED <<zpc, zErr>>

zip_write_file ==
    /\ zpc = "file"
    /\ LET files == items[zItem + 1].files
       IN IF zFile < Len(files)
          THEN ZipOne(files[zFile + 1])
          ELSE /\ zpc' = "contents"
               /\ UNCHANGED <<zOut, zTrace, zFile, zErr>>
    /\ UNCHANGED <<zItem, items, ivars, dvars, evars>>

\* the entry f"{item_path}/contents"
zip_write_contents ==
    /\ zpc = "contents"
    /\ zOut' = Append(zOut, ContentsEntry(ItemName(zItem), items[zItem + 1].files))
    /\ zTrace' = Append(zTrace, Step(zItem, "contents", 0))
    /\ zpc' = "metadata"
    /\ UNCHANGED <<zItem, zFile, zErr, items, ivars, dvars, evars>>

\* the entry f"{item_path}/dublin_core.xml"
zip_write_metadata ==
    /\ zpc = "metadata"
    /\ zOut' = Append(zOut, XmlEntry(ItemName(zItem),
                                     build_and_write_metadata(items[zItem + 1].dc)))
    /\ zTrace' = Append(zTrace, Step(zItem, "metadata", 0))
    /\ zItem' = zItem + 1
    /\ zpc' = "item"
    /\ UNCHANGED <<zFile, zErr, items, ivars, dvars, evars>>

write_to_zip ==
    \/ zip_open
    \/ zip_next_item
    \/ zip_write_file
    \/ zip_write_contents
    \/ zip_write_metadata

----------------------------------------------------------------------------
(* CreateSimpleArchiveFromCSVWriteToPath.execute and create_unique_path *)

\* the input file in.csv and the rows it may hold
InputPath == <<<<"i","n",".","c","s","v">>>>
P_output == <<S_output>>
Row2(f, k, v) == <<[k |-> S_files, v |-> f], [k |-> k, v |-> v]>>
CsvFiles ==
    {<<Row2(F_a, K_title, V_text)>>,
     <<Row2(F_a, K_title, V_text), Row2(F_m, K_title, V_text)>>,
     <<Row2(F_a, K_payload_qualifier, V_text)>>}

\* the values of the argument output_path: none, o/a.zip, o/d
P_o_a_zip == <<<<"o">>, <<"a",".","z","i","p">>>>
P_o_d == <<<<"o">>, <<"d">>>>
OutArgs == {None, Some(P_o_a_zip), Some(P_o_d)}

\* a path built without its suffix
mk_path_without_suffix(base, stem, suffix) == Append(base, stem)

\* mk_path(base, stem, suffix)
mk_path(base, stem, suffix) ==
    IF suffix.some /\ suffix.s # <<>>
    THEN Append(base, stem \o <<".">> \o suffix.s)
    ELSE Append(base, stem)

NoWrite ==
    /\ items' = <<>>
    /\ dpc' = "idle" /\ dItem' = 0 /\ dFile' = 0 /\ dPre' = {} /\ dDirs' = {} /\ dOut' = {}
    /\ dErr' = "" /\ dTrace' = <<>>
    /\ zpc' = "idle" /\ zItem' = 0 /\ zFile' = 0 /\ zOut' = <<>> /\ zErr' = ""
    /\ zTrace' = <<>>

\* execute(input_path, output_path, create_zip) up to the choice of the output
\* path: the first candidate of create_unique_path, or the path given, with
\* create_zip set when its suffix equals "zip"
execute(out, flag) ==
    /\ epc \in {"ready", "done", "failed"}
    /\ runs < MaxRuns
    /\ runs' = runs + 1
    /\ outArg' = out /\ flagArg' = flag /\ eErr' = ""
    /\ NoWrite
    /\ IF ~out.some
       THEN /\ outPath' = mk_path(P_output, PathStem(InputPath),
                                  IF flag THEN Some(S_zip) ELSE None)
            /\ counter' = 1
            /\ createZip' = flag
            /\ epc' = "unique"
       ELSE /\ outPath' = out.s
            /\ counter' = 0
            /\ createZip' = (flag \/ PathSuffix(out.s) = S_zip)
            /\ epc' = "mkdir"
    /\ UNCHANGED <<ivars, csv, existing, produced, autoPaths>>

\* uc.execute(...) called with any arguments
Execute == \E out \in OutArgs, flag \in BOOLEAN : execute(out, flag)

\* cli.main(input_file, output): execute without the create_zip argument
main == \E out \in OutArgs : execute(out, FALSE)

\* create_unique_path: one test of the while loop
create_unique_path ==
    /\ epc = "unique"
    /\ IF Exists(existing, outPath)
       THEN /\ outPath' = mk_path(P_output,
                                  PathStem(InputPath) \o <<".">> \o Fmt03d(counter),
                                  IF createZip THEN Some(S_zip) ELSE None)
            /\ counter' = counter + 1
            /\ UNCHANGED <<epc, autoPaths>>
       ELSE /\ autoPaths' = Append(autoPaths, Output(runs, outPath))
            /\ epc' = "mkdir"
            /\ UNCHANGED <<outPath, counter>>
    /\ UNCHANGED <<ivars, items, dvars, zvars, outArg, flagArg, csv, createZip, eErr,
                   existing, produced, runs>>

\* output_path.parent.mkdir(parents=True, exist_ok=True) for a container,
\* output_path.mkdir(parents=True, exist_ok=False) for a directory tree
execute_mkdir ==
    /\ epc = "mkdir"
    /\ IF createZip
       THEN /\ existing' = MakeDirs(existing, Parent(outPath))
            /\ epc' = "load"
            /\ UNCHANGED <<eErr, produced>>
       ELSE IF Exists(existing, outPath)
       THEN /\ epc' = "failed"
            /\ eErr' = "FileExistsError"
            /\ UNCHANGED <<existing, produced>>
       ELSE /\ existing' = MakeDirs(existing, outPath)
            /\ produced' = Append(produced, Output(runs, outPath))
            /\ epc' = "load"
            /\ eErr' = eErr
    /\ UNCHANGED <<ivars, items, dvars, zvars, outArg, flagArg, csv, outPath, createZip,
                   counter, autoPaths, runs>>

\* SimpleArchive.from_csv_path(input_path): one Item per row, in row order; the
\* first row that is no Item raises
from_csv_path ==
    /\ epc = "load"
    /\ LET built == [i \in 1..Len(csv) |-> ItemOf(csv[i])]
           bad == {i \in 1..Len(csv) : ~built[i].ok}
       IN IF bad # {}
          THEN /\ epc' = "failed"
               /\ eErr' = built[CHOOSE i \in bad : \A j \in bad : i <= j].err
               /\ items' = items
          ELSE /\ items' = [i \in 1..Len(csv) |-> built[i].item]
               /\ epc' = "dispatch"
               /\ eErr' = eErr
    /\ UNCHANGED <<ivars, dvars, zvars, outArg, flagArg, csv, outPath, createZip,
                   counter, existing, produced, autoPaths, runs>>

\* if create_zip: write_to_zip(output_path) else: write_to_path(output_path)
execute_dispatch ==
    /\ epc = "dispatch"
    /\ epc' = "writing"
    /\ IF createZip
       THEN zpc' = "open" /\ dpc' = dpc
       ELSE dpc' = "loop" /\ zpc' = zpc
    /\ UNCHANGED <<ivars, items, dItem, dFile, dPre, dDirs, dOut, dErr, dTrace,
                   zItem, zFile, zOut, zErr, zTrace,
                   outArg, flagArg, csv, outPath, createZip, counter, eErr,
                   existing, produced, autoPaths, runs>>

\* the write returns, or its exception leaves execute
execute_return ==
    /\ epc = "writing"
    /\ \/ dpc \in {"done", "failed"}
       \/ zpc \in {"done", "failed"}
    /\ epc' = IF "failed" \in {dpc, zpc} THEN "failed" ELSE "done"
    /\ eErr' = IF dpc = "failed" THEN dErr ELSE IF zpc = "failed" THEN zErr ELSE eErr
    /\ UNCHANGED <<ivars, items, dvars, zvars, outArg, flagArg, csv, outPath, createZip,
                   counter, existing, produced, autoPaths, runs>>

----------------------------------------------------------------------------
(* The specification.  A behaviour is one of: a row made an Item and its    *)
(* metadata written; an archive written with write_to_path and then with    *)
(* write_to_zip by a caller of SimpleArchive; successive runs of the use    *)
(* case on one file system.                                                 *)

\* rows of the archive: every files value with dc.title = "Empty", and one
\* row with a localized description
WriteRows ==
    {Row2(f, K_title, V_text) : f \in FileStrings}
        \cup {Row2(F_a, K_descr_sv, V_text)}
\* Item(files=[], metadata=...) built from fields, not from a row
FieldItem == [files |-> <<>>, dc |-> ItemOf(Row2(F_a, K_title, V_text)).item.dc]
ArchiveItems == {ItemOf(r).item : r \in WriteRows} \cup {FieldItem}
\* an archive of up to MaxItems items
IsArchive(a) == \E n \in 0..MaxItems : \E its \in [1..n -> ArchiveItems] : a = its

P_out == <<<<"o","u","t">>>>
P_out_zip == <<<<"o","u","t",".","z","i","p">>>>

\* the output directory exists when an item directory exists in it, and may
\* exist empty
InitDirect ==
    /\ IsArchive(items)
    /\ dPre \in SUBSET {ItemName(k) : k \in 0..(MaxItems - 1)}
    /\ existing \in {fs \in {{}, {Dir(P_out)}} : dPre # {} => Dir(P_out) \in fs}
    /\ dpc = "idle" /\ dItem = 0 /\ dFile = 0 /\ dDirs = {} /\ dOut = {}
    /\ dErr = "" /\ dTrace = <<>>
    /\ zpc = "idle" /\ zItem = 0 /\ zFile = 0 /\ zOut = <<>> /\ zErr = "" /\ zTrace = <<>>
    /\ row = <<>> /\ ipc = "idle" /\ item = NoResult /\ doc = NoDoc
    /\ epc = "idle" /\ outArg = None /\ flagArg = FALSE /\ csv = <<>>
    /\ outPath = <<>> /\ createZip = FALSE /\ counter = 0 /\ eErr = ""
    /\ produced = <<>> /\ autoPaths = <<>> /\ runs = 0

\* what may exist before the first run: earlier outputs of the same stem, an
\* explicit output directory
P_output_in == <<S_output, <<"i","n">>>>
P_output_in_001 == <<S_output, <<"i","n",".","0","0","1">>>>
P_output_in_zip == <<S_output, <<"i","n",".","z","i","p">>>>
Seeds == {Dir(P_output_in), Dir(P_output_in_001), File(P_output_in_zip), Dir(P_o_d)}
WithParents(fs) == fs \cup {Dir(Parent(e.path)) : e \in fs}

InitExec ==
    /\ csv \in CsvFiles
    /\ existing \in {WithParents(fs) : fs \in SUBSET Seeds}
    /\ epc = "ready" /\ outArg = None /\ flagArg = FALSE
    /\ outPath = <<>> /\ createZip = FALSE /\ counter = 0 /\ eErr = ""
    /\ produced = <<>> /\ autoPaths = <<>> /\ runs = 0
    /\ row = <<>> /\ ipc = "idle" /\ item = NoResult /\ doc = NoDoc
    /\ WriteIdle

Init == InitItem \/ InitDirect \/ InitExec

\* simar.write_to_path(output)
CallWriteToPath ==
    /\ ipc = "idle" /\ epc = "idle" /\ dpc = "idle"
    /\ dpc' = "loop"
    /\ outPath' = P_out
    /\ UNCHANGED <<dItem, dFile, dPre, dDirs, dOut, dErr, dTrace, items, ivars, zvars,
                   epc, outArg, flagArg, csv, createZip, counter, eErr,
                   existing, produced, autoPaths, runs>>

\* simar.write_to_zip(output), once write_to_path has returned or raised
CallWriteToZip ==
    /\ ipc = "idle" /\ epc = "idle" /\ dpc \in {"done", "failed"} /\ zpc = "idle"
    /\ zpc' = "open"
    /\ outPath' = P_out_zip
    /\ UNCHANGED <<zItem, zFile, zOut, zErr, zTrace, items, ivars, dvars,
                   epc, outArg, flagArg, csv, createZip, counter, eErr,
                   existing, produced, autoPaths, runs>>

Next ==
    \/ Construct
    \/ WriteMetadata
    \/ CallWriteToPath
    \/ CallWriteToZip
    \/ write_to_path
    \/ write_to_zip
    \/ Execute
    \/ main
    \/ create_unique_path
    \/ execute_mkdir
    \/ from_csv_path
    \/ execute_dispatch
    \/ execute_return
Spec == Init /\ [][Next]_vars

----------------------------------------------------------------------------
(* Properties of Item construction and of the metadata document *)

RowHas(r, k) == \E i \in 1..Len(r) : r[i].k = k
RowGet(r, k) == r[CHOOSE i \in 1..Len(r) : r[i].k = k].v
MetaColumns(r) == SelectSeq(r, LAMBDA e : e.k # S_files)

\* C1: a row whose files value is the empty string gives an Item with no
\* files at all (files == []), not a sequence holding one empty path.
C1_EmptyFilesGiveNoFiles ==
    (ipc = "item" /\ RowHas(row, S_files) /\ RowGet(row, S_files) = <<>>)
        => item.item.files = <<>>

\* a key with an empty dot-separated segment: a dot first or last, or two
\* adjacent dots
HasEmptySegment(k) ==
    \/ k = <<>>
    \/ k[1] = "."
    \/ k[Len(k)] = "."
    \/ \E i \in 1..(Len(k) - 1) : k[i] = "." /\ k[i + 1] = "."

\* C8: a row containing a key with an empty segment is rejected at Item
\* construction, whatever its other keys are; no Item is produced from it.
C8_MalformedKeyRejected ==
    (ipc # "row" /\ \E i \in 1..Len(row) : HasEmptySegment(row[i].k))
        => (ipc = "rejected" /\ ~item.ok)

\* a metadata key dc.<key> whose value is a plain string: no further dot
IsDcStringKey(k) ==
    /\ Len(k) >= 3 /\ SubSeq(k, 1, 3) = <<"d","c",".">>
    /\ \A i \in 4..Len(k) : k[i] # "."
DcKeyOf(k) == SubSeq(k, 4, Len(k))
\* a bracketed language tag starts at i and closes at j
TagFromTo(k, i, j) ==
    /\ i + 1 < j /\ k[i] = "[" /\ k[j] = "]"
    /\ \A m \in (i + 1)..(j - 1) : k[m] \in Letters
HasTag(k) == \E i, j \in 1..Len(k) : TagFromTo(k, i, j)
\* reading the key from the left, where its first tag starts and closes
RECURSIVE FirstTagFrom(_, _)
FirstTagFrom(k, i) ==
    IF \E j \in 1..Len(k) : TagFromTo(k, i, j)
    THEN <<i, CHOOSE j \in 1..Len(k) : TagFromTo(k, i, j)>>
    ELSE FirstTagFrom(k, i + 1)
FirstBracket(k) == CHOOSE i \in 1..Len(k) : k[i] = "[" /\ \A j \in 1..(i - 1) : k[j] # "["
\* the key is <element>[<lang>]: it ends with a tag
EndsWithTag(k) == \E i \in 1..Len(k) : TagFromTo(k, i, Len(k))
FinalTagStart(k) == CHOOSE i \in 1..Len(k) : TagFromTo(k, i, Len(k))

C9_Case ==
    /\ ipc = "written"
    /\ \A i \in 1..Len(row) : row[i].k = S_files \/ IsDcStringKey(row[i].k)
C9_Common(c, value) ==
    /\ c.qualifier = S_none
    /\ c.hasText = (value # <<>>)
    /\ c.hasText => c.text = value

\* C9 as stated: one dcvalue per dc.<key> column, in column order; a key
\* <element>[<lang>] gives element = the prefix before the first "[" and
\* language = <lang>; a key without a tag gives element = the key, no language.
C9_ElementBeforeFirstBracket ==
    C9_Case =>
        LET cols == MetaColumns(row)
        IN /\ Len(doc.children) = Len(cols)
           /\ \A i \in 1..Len(cols) :
                LET key == DcKeyOf(cols[i].k)
                    c == doc.children[i]
                IN /\ C9_Common(c, cols[i].v)
                   /\ EndsWithTag(key) =>
                        /\ c.element = SubSeq(key, 1, FirstBracket(key) - 1)
                        /\ c.hasLanguage
                        /\ c.language = SubSeq(key, FinalTagStart(key) + 1, Len(key) - 1)
                   /\ ~HasTag(key) => (c.element = key /\ ~c.hasLanguage)

\* C9 amended: one dcvalue per dc.<key> column, in column order; a key that
\* contains a tag [<lang>] gives element = the prefix before the leftmost tag
\* and language = that tag's <lang>; a key without a tag gives element = the
\* key and no language; qualifier "none", text = the value, none when empty.
C9_ElementBeforeFirstTag ==
    C9_Case =>
        LET cols == MetaColumns(row)
        IN /\ Len(doc.children) = Len(cols)
           /\ \A i \in 1..Len(cols) :
                LET key == DcKeyOf(cols[i].k)
                    c == doc.children[i]
                IN /\ C9_Common(c, cols[i].v)
                   /\ HasTag(key) =>
                        LET tag == FirstTagFrom(key, 1)
                        IN /\ c.element = SubSeq(key, 1, tag[1] - 1)
                           /\ c.hasLanguage
                           /\ c.language = SubSeq(key, tag[1] + 1, tag[2] - 1)
                   /\ ~HasTag(key) => (c.element = key /\ ~c.hasLanguage)

\* C9 witness: a written document of a row with a tagged and an untagged column
C9_Witness ==
    /\ C9_Case
    /\ Len(doc.children) = 2
    /\ RowHas(row, K_two_tags) /\ RowHas(row, K_title)
    /\ RowGet(row, K_two_tags) = V_text

----------------------------------------------------------------------------
(* Properties of the write operations *)

\* item_ followed by k as three decimal digits
ThreeDigits(k) == <<Digit(k \div 100), Digit((k \div 10) % 10), Digit(k % 10)>>
ItemNNN(k) == <<"i","t","e","m","_">> \o ThreeDigits(k)
N_dublin_core_xml == <<<<"d","u","b","l","i","n","_","c","o","r","e",".","x","m","l">>>>
N_contents == <<<<"c","o","n","t","e","n","t","s">>>>
BaseNames(files) == [i \in 1..Len(files) |-> PathName(files[i])]
DocOf(it) == build_and_write_metadata(it.dc)
SeqToSet(q) == {q[i] : i \in 1..Len(q)}

\* the logical content of item name in the output tree and in the container
TreeOf(name) == {e \in dOut : e.item = name}
ZipOf(name) == {e \in SeqToSet(zOut) : e.item = name}
ContentsIn(es) == {e.lines : e \in {x \in es : x.path = N_contents /\ x.kind = "contents"}}
XmlIn(es) == {e.doc : e \in {x \in es : x.path = N_dublin_core_xml /\ x.kind = "xml"}}
FilesIn(es) == {<<e.path, e.bytes>> : e \in {x \in es : x.kind = "file"}}

\* the row {files: "", dc.title: "Empty"} and the Item built from it
EmptyFilesItem == ItemOf(Row2(<<>>, K_title, V_text)).item
HasTitleEmpty(d) ==
    /\ d.schema = <<"d","c">>
    /\ \E i \in 1..Len(d.children) :
          /\ d.children[i].element = <<"t","i","t","l","e">>
          /\ d.children[i].hasText
          /\ d.children[i].text = <<"E","m","p","t","y">>

\* C2: write_to_path of the single item built from {files: "", dc.title:
\* "Empty"} into a fresh output root completes without error and leaves
\* item_000/dublin_core.xml with schema "dc" and title "Empty"; an item built
\* from an empty files value has no file-copy step that runs or fails.
C2_EmptyFilesItemWritten ==
    /\ (ipc = "idle" /\ epc = "idle" /\ items = <<EmptyFilesItem>> /\ dPre = {}) =>
          /\ dpc # "failed"
          /\ dpc = "done" =>
                \E d \in XmlIn(TreeOf(ItemNNN(0))) : HasTitleEmpty(d)
    /\ \A k \in 1..Len(items) :
          items[k].files = EmptyFilesItem.files =>
              /\ \A i \in 1..Len(dTrace) : ~(dTrace[i].item = k - 1 /\ dTrace[i].step = "copy")
              /\ ~(dpc = "failed" /\ dItem = k - 1 /\ dErr # "FileExistsError")

\* every file reference of the archive names an existing file
AllSourcesExist ==
    \A k \in 1..Len(items) : \A j \in 1..Len(items[k].files) :
        items[k].files[j] \in SrcFiles

\* C4: for an archive whose referenced files all exist, write_to_path and
\* write_to_zip give every item the same contents listing, the same metadata
\* document and the same set of copied files with the same bytes.
C4_SameLogicalContent ==
    (dpc = "done" /\ zpc = "done" /\ AllSourcesExist) =>
        \A k \in 0..(Len(items) - 1) :
            /\ ContentsIn(TreeOf(ItemNNN(k))) = ContentsIn(ZipOf(ItemNNN(k)))
            /\ XmlIn(TreeOf(ItemNNN(k))) = XmlIn(ZipOf(ItemNNN(k)))
            /\ FilesIn(TreeOf(ItemNNN(k))) = FilesIn(ZipOf(ItemNNN(k)))

\* item k is complete in the output tree: its directory, its contents listing,
\* a copy of each of its files under the file's base name, its metadata
TreeComplete(k) ==
    /\ ItemNNN(k) \in dDirs
    /\ ContentsIn(TreeOf(ItemNNN(k))) = {BaseNames(items[k + 1].files)}
    /\ XmlIn(TreeOf(ItemNNN(k))) = {DocOf(items[k + 1])}
    /\ {f[1] : f \in FilesIn(TreeOf(ItemNNN(k)))}
          = {<<PathName(p)>> : p \in SeqToSet(items[k + 1].files)}
    /\ \A f \in FilesIn(TreeOf(ItemNNN(k))) :
          \E p \in SeqToSet(items[k + 1].files) : f = <<<<PathName(p)>>, SrcBytes(p)>>
\* item k is complete in the container: an entry per file under its relative
\* path, in file order, then the contents listing, then the metadata
ZipEntriesOf(k) == SelectSeq(zOut, LAMBDA e : e.item = ItemNNN(k))
ZipComplete(k) ==
    LET es == ZipEntriesOf(k)
        files == items[k + 1].files
    IN /\ Len(es) = Len(files) + 2
       /\ \A j \in 1..Len(files) :
             /\ es[j].path = files[j]
             /\ es[j].kind = "file" => es[j].bytes = SrcBytes(files[j])
             /\ es[j].kind \in {"file", "dir"}
       /\ es[Len(files) + 1].path = N_contents
       /\ es[Len(files) + 1].lines = BaseNames(files)
       /\ es[Len(files) + 2].path = N_dublin_core_xml
       /\ es[Len(files) + 2].doc = DocOf(items[k + 1])

CollisionRaised ==
    \/ dpc = "failed" /\ dErr = "FileExistsError"
    \/ epc = "failed" /\ eErr = "FileExistsError"

\* C5 as stated: when a directory the write needs to create exists already
\* (the output root in execute, any item_NNN in write_to_path), nothing has
\* been created by the operation at the moment the collision is raised.
C5_NothingWrittenOnCollision ==
    CollisionRaised => (dDirs = {} /\ dOut = {})

\* C5 amended: an existing output root makes execute abort before anything is
\* read or written; an existing item_NNN makes write_to_path abort before
\* anything of item NNN or of a later item is created, the items before it
\* having been written completely; nothing is ever created in an existing
\* item directory.
C5_NothingOfCollidingItemWritten ==
    /\ (epc = "failed" /\ eErr = "FileExistsError") =>
          (items = <<>> /\ dDirs = {} /\ dOut = {} /\ zOut = <<>>)
    /\ (dpc = "failed" /\ dErr = "FileExistsError") =>
          /\ ItemNNN(dItem) \in dPre
          /\ dDirs = {ItemNNN(k) : k \in 0..(dItem - 1)}
          /\ \A e \in dOut : e.item \in dDirs
          /\ \A k \in 0..(dItem - 1) : TreeComplete(k)
    /\ dDirs \cap dPre = {}
    /\ \A e \in dOut : e.item \notin dPre

\* C5 witness: item_001 exists, and the collision is raised with item_000
\* written
C5_Witness ==
    /\ dpc = "failed" /\ dErr = "FileExistsError"
    /\ dItem = 1 /\ ItemNNN(1) \in dPre
    /\ TreeComplete(0)

\* the I/O calls of a complete write, in program order
RECURSIVE CopySteps(_, _, _)
CopySteps(k, j, n) == IF j > n THEN <<>> ELSE <<Step(k, "copy", j)>> \o CopySteps(k, j + 1, n)
TreeStepsOf(k, it) ==
    <<Step(k, "mkdir", 0), Step(k, "contents", 0)>>
        \o CopySteps(k, 1, Len(it.files)) \o <<Step(k, "metadata", 0)>>
ZipStepsOf(k, it) ==
    CopySteps(k, 1, Len(it.files)) \o <<Step(k, "contents", 0), Step(k, "metadata", 0)>>
RECURSIVE TreeSteps(_, _)
TreeSteps(k, its) ==
    IF k >= Len(its) THEN <<>> ELSE TreeStepsOf(k, its[k + 1]) \o TreeSteps(k + 1, its)
RECURSIVE ZipSteps(_, _)
ZipSteps(k, its) ==
    IF k >= Len(its) THEN <<>> ELSE ZipStepsOf(k, its[k + 1]) \o ZipSteps(k + 1, its)
IsPrefix(p, q) == Len(p) <= Len(q) /\ SubSeq(q, 1, Len(p)) = p
FileOfStep(st) == items[st.item + 1].files[st.file]

\* C6: a missing source file of item k makes the write fail and stop there:
\* no copy passes over a missing file and no write completes over one; at the
\* failure nothing of a later item and no later step of item k exists (no
\* dublin_core.xml of item k), and every earlier item is complete.
C6_MissingFileStopsTheWrite ==
    /\ IsPrefix(dTrace, TreeSteps(0, items))
    /\ IsPrefix(zTrace, ZipSteps(0, items))
    /\ \A i \in 1..Len(dTrace) : dTrace[i].step = "copy" => SrcKind(FileOfStep(dTrace[i])) # "missing"
    /\ \A i \in 1..Len(zTrace) : zTrace[i].step = "copy" => SrcKind(FileOfStep(zTrace[i])) # "missing"
    /\ (dpc = "failed" /\ dErr = "FileNotFoundError") =>
          /\ SrcKind(items[dItem + 1].files[dFile + 1]) = "missing"
          /\ dDirs = {ItemNNN(k) : k \in 0..dItem}
          /\ \A e \in dOut : e.item \in dDirs
          /\ XmlIn(TreeOf(ItemNNN(dItem))) = {}
          /\ \A k \in 0..(dItem - 1) : TreeComplete(k)
    /\ (zpc = "failed" /\ zErr = "FileNotFoundError") =>
          /\ SrcKind(items[zItem + 1].files[zFile + 1]) = "missing"
          /\ \A e \in SeqToSet(zOut) : e.item \in {ItemNNN(k) : k \in 0..zItem}
          /\ XmlIn(ZipOf(ItemNNN(zItem))) = {}
          /\ ContentsIn(ZipOf(ItemNNN(zItem))) = {}
          /\ \A k \in 0..(zItem - 1) : ZipComplete(k)

\* C6 witness: both writes have failed on the missing second file of item 1,
\* with item 0 and the first file of item 1 written
C6_Witness ==
    /\ dpc = "failed" /\ dErr = "FileNotFoundError" /\ dItem = 1 /\ dFile = 1
    /\ zpc = "failed" /\ zErr = "FileNotFoundError" /\ zItem = 1 /\ zFile = 1
    /\ FilesIn(TreeOf(ItemNNN(1))) # {}
    /\ FilesIn(ZipOf(ItemNNN(1))) # {}

\* C10: both writes take the items in row order and name the k-th item item_NNN,
\* NNN = k in three digits: the I/O calls happen in item order, every call of
\* item k before any call of item k + 1, and after a successful write of n
\* items the output holds exactly item_000 .. item_(n-1), pairwise distinct,
\* item k holding the files and the metadata of the k-th item.
C10_ItemsInOrder ==
    /\ IsPrefix(dTrace, TreeSteps(0, items))
    /\ IsPrefix(zTrace, ZipSteps(0, items))
    /\ \A i, j \in 1..Len(dTrace) : i < j => dTrace[i].item <= dTrace[j].item
    /\ \A i, j \in 1..Len(zTrace) : i < j => zTrace[i].item <= zTrace[j].item
    /\ dpc = "done" =>
          /\ dTrace = TreeSteps(0, items)
          /\ dDirs = {ItemNNN(k) : k \in 0..(Len(items) - 1)}
          /\ Cardinality(dDirs) = Len(items)
          /\ \A e \in dOut : e.item \in dDirs
          /\ \A k \in 0..(Len(items) - 1) : TreeComplete(k)
    /\ zpc = "done" =>
          /\ zTrace = ZipSteps(0, items)
          /\ {e.item : e \in SeqToSet(zOut)} = {ItemNNN(k) : k \in 0..(Len(items) - 1)}
          /\ Cardinality({e.item : e \in SeqToSet(zOut)}) = Len(items)
          /\ \A k \in 0..(Len(items) - 1) : ZipComplete(k)
          /\ \A i, j \in 1..Len(zOut) :
                (i < j /\ zOut[i].item # zOut[j].item) =>
                    \E a, b \in 0..(Len(items) - 1) :
                        a < b /\ zOut[i].item = ItemNNN(a) /\ zOut[j].item = ItemNNN(b)

\* C10 witness: an archive of two items with files, written successfully both
\* ways
C10_Witness ==
    /\ dpc = "done" /\ zpc = "done" /\ Len(items) = 2
    /\ items[1].files # <<>> /\ items[2].files # <<>>
    /\ items[1] # items[2]

----------------------------------------------------------------------------
(* Properties of the use case *)

\* the name of the path ends with ".zip"
HasZipSuffix(p) ==
    LET name == p[Len(p)]
    IN Len(name) > 4 /\ SubSeq(name, Len(name) - 3, Len(name)) = <<".","z","i","p">>

\* C3: with an explicit output path, execute writes a container when the
\* create_zip flag is set or the path has a zip suffix, and a directory tree
\* otherwise.
C3_ModeInferredFromSuffix ==
    (epc = "writing" /\ outArg.some) =>
        IF flagArg \/ HasZipSuffix(outArg.s)
        THEN zpc # "idle" /\ dpc = "idle"
        ELSE dpc # "idle" /\ zpc = "idle"

\* output/in, output/in.001, ... with ".zip" appended in container mode
AutoName(n, zip) ==
    <<<<"o","u","t","p","u","t">>,
      <<"i","n">> \o (IF n = 0 THEN <<>> ELSE <<".">> \o ThreeDigits(n))
                  \o (IF zip THEN <<".","z","i","p">> ELSE <<>>)>>
FirstFree(fs, zip) ==
    CHOOSE n \in 0..Cardinality(fs) :
        /\ ~Exists(fs, AutoName(n, zip))
        /\ \A m \in 0..(n - 1) : Exists(fs, AutoName(m, zip))

\* C7: create_unique_path ends within as many tests as there are existing
\* paths, and returns the first of stem, stem.001, stem.002, ... (with the
\* suffix in container mode) that does not exist; a path it returns was never
\* produced as the output of an earlier run.
C7_AutoNameIsFresh ==
    /\ epc = "unique" => counter <= Cardinality(existing) + 1
    /\ (epc = "mkdir" /\ ~outArg.some) =>
          /\ ~Exists(existing, outPath)
          /\ outPath = AutoName(FirstFree(existing, flagArg), flagArg)
          /\ autoPaths # <<>> /\ autoPaths[Len(autoPaths)] = Output(runs, outPath)
    /\ \A j \in 1..Len(autoPaths) : \A i \in 1..Len(produced) :
          produced[i].run < autoPaths[j].run => produced[i].path # autoPaths[j].path
    /\ \A i, j \in 1..Len(autoPaths) :
          (i < j /\ \E q \in 1..Len(produced) : produced[q] = autoPaths[i])
              => autoPaths[i].path # autoPaths[j].path

\* C7 witness: two runs without an output path, the first of which created
\* output/in: the second is given output/in.001
C7_Witness ==
    /\ Len(autoPaths) = 2
    /\ autoPaths[1].path = AutoName(0, FALSE)
    /\ autoPaths[2].path = AutoName(1, FALSE)
    /\ produced # <<>> /\ produced[1] = autoPaths[1]
    /\ epc = "done"

====
